---- MODULE Spec2Model ----
(***************************************************************************)
(* Model of the Cloudflare error-discovery tool: the response classifier   *)
(* (cloudflare/client.ts, cloudflare/errors.ts), the transport call        *)
(* makeRequest, the agent tools and the discovery ledger (agent/tools.ts)  *)
(* and the chat loop of the discover command (cli.ts).                     *)
(***************************************************************************)
EXTENDS Integers, Sequences, FiniteSets, TLC

VARIABLES
    clsIn,              \* classifier: the (response, httpStatus) argument pair
    clsOut,             \* classifier: the error parseCloudflareError returned
    clsPc,              \* classifier: "input" before the call, "classified" after
    discoveredErrors,   \* tools.ts: the module-level array of recorded errors
    h,                  \* per fiber: the state of a running CallApi handler
    last,               \* per fiber: the outcome of the fiber's last tool call
    probes,             \* number of CallApi calls issued so far
    invocationsFailed,  \* number of CallApi calls whose op(parsedInput) failed
    invocationsOk,      \* number of CallApi calls whose op(parsedInput) succeeded
    loopPc,             \* discover: position in the chat loop
    iteration,          \* discover: the loop counter
    finishReason,       \* discover: finish reason of the current iteration
    retries,            \* discover: recurrences of the retry schedule so far
    delays,             \* discover: the delays the retry schedule has slept
    plan,               \* discover: the tool calls the planner asks in this step
    planIdx,            \* discover: next tool call of the plan to execute
    countedIdx,         \* discover: plan positions whose probe failed in this step
    requestedFailed,    \* discover: failed probes, counted once per request
    streamErrors,       \* discover: the failures of processStream in this iteration
    saved,              \* discover: what the save step has written, per run
    catErrors,          \* catalog: the elements of the errors argument read so far
    operations,         \* catalog: operation name -> [documentedErrors, errors]
    allUniqueErrors,    \* catalog: the Map from "tag:code" to an entry of operations
    summary,            \* catalog: the summary of the returned catalog
    catPc               \* catalog: "loop" in the for loop, "done" after the return

vars == << clsIn, clsOut, clsPc, discoveredErrors, h, last, probes,
           invocationsFailed, invocationsOk, loopPc, iteration, finishReason,
           retries, delays, plan, planIdx, countedIdx, requestedFailed,
           streamErrors, saved, catErrors, operations, allUniqueErrors, summary, catPc >>

catVars == << catErrors, operations, allUniqueErrors, summary, catPc >>
clsVars == << clsIn, clsOut, clsPc >>
toolVars == << discoveredErrors, h, last, probes, invocationsFailed, invocationsOk >>
loopVars == << loopPc, iteration, finishReason, retries, delays, plan, planIdx,
               countedIdx, requestedFailed, streamErrors, saved >>

(***************************************************************************)
(* Bounds of the model.                                                    *)
(***************************************************************************)
MaxErrors == 2      \* longest errors list of an envelope given to the classifier
MaxProbes == 2      \* CallApi calls per session
MaxPlan == 2        \* tool calls the planner asks for in one response

(***************************************************************************)
(* cloudflare/errors.ts: the error tags and the two classification tables. *)
(***************************************************************************)
ProviderTags ==
    { "CloudflareError", "UnknownCloudflareError", "AuthenticationError",
      "RateLimitError", "NotFoundError", "ValidationError",
      "QuotaExceededError", "AlreadyExistsError" }

TransportTags == { "HttpError", "ParseError" }

COMMON_ERROR_CODES ==
    (9103 :> "AuthenticationError") @@ (9109 :> "AuthenticationError") @@
    (9106 :> "AuthenticationError") @@ (6003 :> "RateLimitError") @@
    (1001 :> "ValidationError") @@ (1004 :> "ValidationError") @@
    (1006 :> "ValidationError") @@ (10000 :> "NotFoundError")

\* Variant: 403 taken for a quota error, 409 left out.
HTTP_STATUS_TO_ERROR_Quota403 ==
    (400 :> "ValidationError") @@ (401 :> "AuthenticationError") @@
    (403 :> "QuotaExceededError") @@ (404 :> "NotFoundError") @@
    (429 :> "RateLimitError")

HTTP_STATUS_TO_ERROR ==
    (400 :> "ValidationError") @@ (401 :> "AuthenticationError") @@
    (403 :> "AuthenticationError") @@ (404 :> "NotFoundError") @@
    (409 :> "AlreadyExistsError") @@ (429 :> "RateLimitError")

\* The semantic category a tag stands for.  CloudflareError is the generic
\* error class, used when the provider gave no details; the tool has no
\* finer name for it than for UnknownCloudflareError.
Category(tag) ==
    CASE tag = "AuthenticationError" -> "Authentication"
      [] tag = "RateLimitError" -> "RateLimit"
      [] tag = "NotFoundError" -> "NotFound"
      [] tag = "ValidationError" -> "Validation"
      [] tag = "QuotaExceededError" -> "QuotaExceeded"
      [] tag = "AlreadyExistsError" -> "AlreadyExists"
      [] tag = "HttpError" -> "Network"
      [] tag = "ParseError" -> "Parse"
      [] OTHER -> "Unknown"

(***************************************************************************)
(* cloudflare/client.ts: parseCloudflareError.                             *)
(* A response is [success, errors, result]; errors is [present, list], an  *)
(* absent errors field having present = FALSE; an httpStatus of 0 stands   *)
(* for the omitted optional argument (0 and undefined are both falsy).     *)
(***************************************************************************)
NoDetailsMessage == "Unknown error: API returned success=false but no error details"

\* An error value.  hasCode tells whether the error class has a code field:
\* the provider errors do, HttpError and ParseError do not.
MkError(tag, code, message, httpStatus) ==
    [ tag |-> tag, hasCode |-> TRUE, code |-> code, message |-> message,
      httpStatus |-> httpStatus ]

MkTransportError(tag, message) ==
    [ tag |-> tag, hasCode |-> FALSE, code |-> 0, message |-> message,
      httpStatus |-> 0 ]

NoError == [ tag |-> "none", hasCode |-> FALSE, code |-> 0, message |-> "",
             httpStatus |-> 0 ]

\* Variant: the status table consulted before the code table.
parseStatusFirst(response, httpStatus) ==
    IF ~response.errors.present \/ Len(response.errors.list) = 0
    THEN MkError("CloudflareError", 0, NoDetailsMessage, httpStatus)
    ELSE LET primaryError == response.errors.list[1]
             code == primaryError.code
             message == primaryError.message
         IN  IF httpStatus # 0 /\ httpStatus \in DOMAIN HTTP_STATUS_TO_ERROR
             THEN MkError(HTTP_STATUS_TO_ERROR[httpStatus], code, message, httpStatus)
             ELSE IF code \in DOMAIN COMMON_ERROR_CODES
                  THEN MkError(COMMON_ERROR_CODES[code], code, message, httpStatus)
                  ELSE MkError("UnknownCloudflareError", code, message, httpStatus)

\* Variant: an envelope without error details classified by its status.
parseEmptyByStatus(response, httpStatus) ==
    IF ~response.errors.present \/ Len(response.errors.list) = 0
    THEN IF httpStatus # 0 /\ httpStatus \in DOMAIN HTTP_STATUS_TO_ERROR
         THEN MkError(HTTP_STATUS_TO_ERROR[httpStatus], 0, NoDetailsMessage, httpStatus)
         ELSE MkError("CloudflareError", 0, NoDetailsMessage, httpStatus)
    ELSE LET primaryError == response.errors.list[1]
             code == primaryError.code
             message == primaryError.message
         IN  IF code \in DOMAIN COMMON_ERROR_CODES
             THEN MkError(COMMON_ERROR_CODES[code], code, message, httpStatus)
             ELSE IF httpStatus # 0 /\ httpStatus \in DOMAIN HTTP_STATUS_TO_ERROR
                  THEN MkError(HTTP_STATUS_TO_ERROR[httpStatus], code, message, httpStatus)
                  ELSE MkError("UnknownCloudflareError", code, message, httpStatus)

parseCloudflareError(response, httpStatus) ==
    IF ~response.errors.present \/ Len(response.errors.list) = 0
    THEN MkError("CloudflareError", 0, NoDetailsMessage, httpStatus)
    ELSE LET primaryError == response.errors.list[1]
             code == primaryError.code
             message == primaryError.message
         IN  IF code \in DOMAIN COMMON_ERROR_CODES
             THEN MkError(COMMON_ERROR_CODES[code], code, message, httpStatus)
             ELSE IF httpStatus # 0 /\ httpStatus \in DOMAIN HTTP_STATUS_TO_ERROR
                  THEN MkError(HTTP_STATUS_TO_ERROR[httpStatus], code, message, httpStatus)
                  ELSE MkError("UnknownCloudflareError", code, message, httpStatus)

(***************************************************************************)
(* The classifier on its own: Init draws the arguments, Classify applies   *)
(* parseCloudflareError to them.                                           *)
(***************************************************************************)
Codes == { 0, 1001, 6003, 7001, 9103, 10000, 10013 }
Messages == { "m1", "m2" }
Statuses == { 0, 200, 400, 401, 403, 404, 405, 409, 429, 500 }

ApiErrors == [ code : Codes, message : Messages ]

RECURSIVE SeqsUpTo(_, _)
SeqsUpTo(S, n) ==
    IF n = 0 THEN { <<>> }
    ELSE LET shorter == SeqsUpTo(S, n - 1)
         IN  shorter \cup { Append(q, x) : q \in { r \in shorter : Len(r) = n - 1 }, x \in S }

\* A list whose later elements are informational: position 1 ranges over all
\* ApiErrors, the later positions over the codes with one message.
ErrorLists ==
    { <<>> } \cup
    { <<first>> \o rest : first \in ApiErrors,
          rest \in SeqsUpTo([ code : Codes, message : { "m2" } ], MaxErrors - 1) }

Responses ==
    [ success : { FALSE },
      errors : [ present : { TRUE }, list : ErrorLists ]
               \cup { [ present |-> FALSE, list |-> <<>> ] },
      hasResult : { FALSE } ]

ClsIdle == [ response |-> [ success |-> FALSE,
                            errors |-> [ present |-> FALSE, list |-> <<>> ],
                            hasResult |-> FALSE ],
             httpStatus |-> 0 ]

Classify ==
    /\ clsPc = "input"
    /\ clsOut' = parseCloudflareError(clsIn.response, clsIn.httpStatus)
    /\ clsPc' = "classified"
    /\ UNCHANGED << clsIn, toolVars, loopVars, catVars >>

(***************************************************************************)
(* services/kv.ts, services/d1.ts, services/r2.ts: the known-error list of *)
(* every operation (the errors field of the Operation objects).  The       *)
(* Workers module is not among the sources and is not modelled.            *)
(***************************************************************************)
KVErrors ==
    [ listNamespaces |-> { "AuthenticationError", "RateLimitError" },
      createNamespace |-> { "AuthenticationError", "ValidationError",
                            "AlreadyExistsError", "QuotaExceededError",
                            "RateLimitError" },
      deleteNamespace |-> { "AuthenticationError", "NotFoundError", "RateLimitError" },
      listKeys |-> { "AuthenticationError", "NotFoundError", "RateLimitError" },
      getValue |-> { "AuthenticationError", "NotFoundError", "RateLimitError" },
      putValue |-> { "AuthenticationError", "NotFoundError", "ValidationError",
                     "QuotaExceededError", "RateLimitError" },
      deleteValue |-> { "AuthenticationError", "NotFoundError", "RateLimitError" } ]

D1Errors ==
    [ listDatabases |-> { "AuthenticationError", "RateLimitError" },
      createDatabase |-> { "AuthenticationError", "ValidationError",
                           "AlreadyExistsError", "QuotaExceededError",
                           "RateLimitError" },
      deleteDatabase |-> { "AuthenticationError", "NotFoundError", "RateLimitError" },
      executeQuery |-> { "AuthenticationError", "NotFoundError", "ValidationError",
                         "RateLimitError" } ]

R2Errors ==
    [ listBuckets |-> { "AuthenticationError", "RateLimitError" },
      createBucket |-> { "AuthenticationError", "ValidationError",
                         "AlreadyExistsError", "QuotaExceededError",
                         "RateLimitError" },
      deleteBucket |-> { "AuthenticationError", "NotFoundError", "RateLimitError" },
      getBucket |-> { "AuthenticationError", "NotFoundError", "RateLimitError" } ]

\* tools.ts getService: the table of service modules.
services == [ KV |-> KVErrors, R2 |-> R2Errors, D1 |-> D1Errors ]

\* The operations whose body reads a property of its input before the
\* request is sent (input.namespaceId, input.name, ...); the list
\* operations and KV.createNamespace do not.
ReadsInput(serviceName, operationName) ==
    << serviceName, operationName >> \notin
        { << "KV", "listNamespaces" >>, << "KV", "createNamespace" >>,
          << "D1", "listDatabases" >>, << "R2", "listBuckets" >> }

\* The operations the service modules export.
HasOperation(serviceName, operationName) ==
    /\ serviceName \in DOMAIN services
    /\ operationName \in DOMAIN services[serviceName]

\* The table of getService is an object literal: besides its own four keys
\* it answers the names it inherits from Object.prototype.  Of those, the
\* name constructor (the function Object) and two of its properties: keys,
\* a function, and name, a string.  The service modules are module
\* namespace objects and inherit nothing.
ObjectPrototype == [ constructor |-> [ keys |-> "function", name |-> "string" ] ]

\* Variant: only own keys of the table are looked up.
getOperationOwn(serviceName, operationName) ==
    IF HasOperation(serviceName, operationName) THEN "operation" ELSE "undefined"

\* tools.ts getOperation: services[serviceName][operationName]: "operation"
\* for an exported operation, "undefined", or the type of the foreign value.
getOperation(serviceName, operationName) ==
    IF serviceName \in DOMAIN services
    THEN IF operationName \in DOMAIN services[serviceName] THEN "operation"
         ELSE "undefined"
    ELSE IF serviceName \in DOMAIN ObjectPrototype
         THEN IF operationName \in DOMAIN ObjectPrototype[serviceName]
              THEN ObjectPrototype[serviceName][operationName]
              ELSE "undefined"
         ELSE "undefined"

\* tools.ts DescribeOperation: the knownErrors list of the reply, or the
\* failure when the operation is not found.
DescribeOperation(serviceName, operationName) ==
    IF getOperation(serviceName, operationName) = "undefined"
    THEN [ found |-> FALSE, knownErrors |-> {} ]
    ELSE [ found |-> TRUE,
           knownErrors |-> IF HasOperation(serviceName, operationName)
                           THEN services[serviceName][operationName] ELSE {} ]

\* The set CallApi and DescribeOperation build from op.errors.
knownErrors(serviceName, operationName) == services[serviceName][operationName]

(***************************************************************************)
(* tools.ts CallApi, input parsing: trim, then "" and "{}" give the empty  *)
(* object and everything else goes through JSON.parse, which throws on     *)
(* text that is not JSON and returns whatever value the text denotes.      *)
(***************************************************************************)
InputTexts == { "", "  ", "{}", " {} ", "{\"id\":\"a\"}", "{\"id\":\"b\"}",
                "null", "5", "[1]", "oops" }

trim(input) ==
    CASE input = "  " -> ""
      [] input = " {} " -> "{}"
      [] OTHER -> input

\* [ok, kind, text]: ok = FALSE when JSON.parse throws; kind is the type of
\* the parsed value and text its serialisation.
JSONparse(text) ==
    CASE text = "{}" -> [ ok |-> TRUE, kind |-> "object", text |-> "{}" ]
      [] text = "{\"id\":\"a\"}" -> [ ok |-> TRUE, kind |-> "object", text |-> text ]
      [] text = "{\"id\":\"b\"}" -> [ ok |-> TRUE, kind |-> "object", text |-> text ]
      [] text = "null" -> [ ok |-> TRUE, kind |-> "null", text |-> text ]
      [] text = "5" -> [ ok |-> TRUE, kind |-> "number", text |-> text ]
      [] text = "[1]" -> [ ok |-> TRUE, kind |-> "array", text |-> text ]
      [] OTHER -> [ ok |-> FALSE, kind |-> "none", text |-> "" ]

parseInput(input) ==
    LET trimmed == trim(input)
    IN  IF trimmed = "" \/ trimmed = "{}"
        THEN [ ok |-> TRUE, kind |-> "object", text |-> "{}" ]
        ELSE JSONparse(trimmed)

(***************************************************************************)
(* cloudflare/types.ts defaultCloudflareConfig and cloudflare/client.ts    *)
(* makeRequest.  A transport response is [status, json, body]: json tells  *)
(* whether response.json() resolves, body is the envelope it resolves to.  *)
(***************************************************************************)
retryAttempts == 3
retryDelayMs == 1000

RECURSIVE Pow2(_)
Pow2(n) == IF n = 0 THEN 1 ELSE 2 * Pow2(n - 1)

\* Schedule.exponential(base): the delay before recurrence number n + 1.
exponential(base, n) == base * Pow2(n)

\* Variant: every failure of fetch is retried.
retryWhileInputAny(error) == TRUE

\* The predicate of Schedule.whileInput in makeRequest.
retryWhileInput(error) == error.tag = "RateLimitError"

\* exponential(retryDelayMs) composed with recurs(retryAttempts), while the
\* failure satisfies the whileInput predicate.
scheduleContinues(error, recurrences) ==
    retryWhileInput(error) /\ recurrences < retryAttempts

NetworkError == MkTransportError("HttpError", "Network Error")

responseOk(status) == status >= 200 /\ status <= 299

NullResultMessage == "API returned success=true but result is null"

\* Variant: a null result of a successful envelope handed to the caller.
makeRequestNullOk(resp) ==
    IF ~responseOk(resp.status)
    THEN IF ~resp.json
         THEN [ ok |-> FALSE,
                error |-> MkTransportError("ParseError", "Failed to parse error response") ]
         ELSE [ ok |-> FALSE, error |-> parseCloudflareError(resp.body, resp.status) ]
    ELSE IF ~resp.json
         THEN [ ok |-> FALSE,
                error |-> MkTransportError("ParseError", "Failed to parse response body") ]
         ELSE IF ~resp.body.success
              THEN [ ok |-> FALSE, error |-> parseCloudflareError(resp.body, resp.status) ]
              ELSE [ ok |-> TRUE, error |-> NoError ]

\* makeRequest from the check of the HTTP status on: [ok, error].
makeRequestResult(resp) ==
    IF ~responseOk(resp.status)
    THEN IF ~resp.json
         THEN [ ok |-> FALSE,
                error |-> MkTransportError("ParseError", "Failed to parse error response") ]
         ELSE [ ok |-> FALSE, error |-> parseCloudflareError(resp.body, resp.status) ]
    ELSE IF ~resp.json
         THEN [ ok |-> FALSE,
                error |-> MkTransportError("ParseError", "Failed to parse response body") ]
         ELSE IF ~resp.body.success
              THEN [ ok |-> FALSE, error |-> parseCloudflareError(resp.body, resp.status) ]
              ELSE IF ~resp.body.hasResult
                   THEN [ ok |-> FALSE,
                          error |-> MkError("CloudflareError", 0, NullResultMessage,
                                            resp.status) ]
                   ELSE [ ok |-> TRUE, error |-> NoError ]

(***************************************************************************)
(* The transport responses of a session: one of each shape the provider    *)
(* and the network produce.                                                *)
(***************************************************************************)
Envelope(success, codes, hasResult) ==
    [ success |-> success,
      errors |-> [ present |-> TRUE,
                   list |-> [ i \in 1..Len(codes) |-> [ code |-> codes[i], message |-> "m1" ] ] ],
      hasResult |-> hasResult ]

Http(status, body) == [ status |-> status, json |-> TRUE, body |-> body ]

NonJson(status) == [ status |-> status, json |-> FALSE, body |-> ClsIdle.response ]

SessionResponses ==
    { Http(200, Envelope(TRUE, <<>>, TRUE)),        \* success
      Http(200, Envelope(TRUE, <<>>, FALSE)),       \* success, result null
      Http(200, Envelope(FALSE, <<1001>>, FALSE)),  \* 2xx, success = false
      Http(429, Envelope(FALSE, <<6003>>, FALSE)),  \* rate limit, by code
      Http(429, Envelope(FALSE, <<0>>, FALSE)),     \* rate limit, by status
      Http(404, Envelope(FALSE, <<10013>>, FALSE)), \* not found, by status
      Http(400, Envelope(FALSE, <<10013>>, FALSE)), \* validation, by status
      Http(401, Envelope(FALSE, <<10000>>, FALSE)), \* code 10000
      Http(405, Envelope(FALSE, <<7001>>, FALSE)),  \* in neither table
      Http(404, Envelope(FALSE, <<>>, FALSE)),      \* no error details
      NonJson(500),                                 \* body is not JSON
      NonJson(200) }

(***************************************************************************)
(* agent/tools.ts: the discovery ledger and the CallApi handler.  A        *)
(* handler runs in a fiber; it is suspended while fetch and                *)
(* response.json() are pending.                                            *)
(***************************************************************************)
Fibers == { "f1", "f2" }

IdleHandler ==
    [ pc |-> "idle", tool |-> "CallApi", service |-> "", operation |-> "", input |-> "",
      requests |-> 0, recurrences |-> 0, slept |-> <<>>, response |-> NonJson(0) ]

NoOutcome ==
    [ kind |-> "none", service |-> "", operation |-> "", text |-> "",
      error |-> NoError, requests |-> 0, slept |-> <<>>, response |-> NonJson(0),
      input |-> "", tool |-> "" ]

Outcome(kind, c, text, error) ==
    [ kind |-> kind, service |-> c.service, operation |-> c.operation,
      text |-> text, error |-> error, requests |-> c.requests, slept |-> c.slept,
      response |-> c.response, input |-> c.input, tool |-> c.tool ]

\* Variant: only new errors are pushed.
recordErrorOnlyNew(ledger, service, operation, tag, code, message, isNew) ==
    IF isNew
    THEN Append(ledger, [ service |-> service, operation |-> operation, tag |-> tag,
                          code |-> code, message |-> message ])
    ELSE ledger

\* Variant: a record of the same operation, tag and code is replaced.
recordErrorReplace(ledger, service, operation, tag, code, message, isNew) ==
    Append(SelectSeq(ledger, LAMBDA e : ~(/\ e.service = service
                                          /\ e.operation = operation
                                          /\ e.tag = tag
                                          /\ e.code = code)),
           [ service |-> service, operation |-> operation, tag |-> tag,
             code |-> code, message |-> message ])

\* recordError: one push onto discoveredErrors (discoveredAt, the wall-clock
\* time of the push, is left out).  isNew only selects the log line.
recordError(ledger, service, operation, tag, code, message, isNew) ==
    Append(ledger, [ service |-> service, operation |-> operation, tag |-> tag,
                     code |-> code, message |-> message ])

\* Variant: every error taken for a new one.
isNewAlways(errorTag, serviceName, operationName) == TRUE

\* Variant: every error taken for a known one.
isNewNever(errorTag, serviceName, operationName) == FALSE

\* const isNew = !knownErrors.has(errorTag)
isNewError(errorTag, serviceName, operationName) ==
    errorTag \notin knownErrors(serviceName, operationName)

\* CallApi up to the invocation of op(parsedInput).
CallApiCore(f, serviceName, operationName, input) ==
    /\ h[f].pc = "idle"
    /\ probes < MaxProbes
    /\ probes' = probes + 1
    /\ LET c == [ IdleHandler EXCEPT !.service = serviceName,
                                     !.operation = operationName,
                                     !.input = input ]
           op == getOperation(serviceName, operationName)
           parsed == parseInput(input)
       IN  IF op = "undefined"
           THEN /\ last' = [ last EXCEPT ![f] =
                                Outcome("failed", c, "Operation not found", NoError) ]
                /\ UNCHANGED h
           ELSE IF ~parsed.ok
           THEN /\ last' = [ last EXCEPT ![f] =
                                Outcome("returned", c, "Error: Invalid JSON input", NoError) ]
                /\ UNCHANGED h
           ELSE IF op # "operation"
           \* op(parsedInput) on a value that is no operation: not a function,
           \* or a function whose result has no pipe method
           THEN /\ last' = [ last EXCEPT ![f] = Outcome("defect", c, "TypeError", NoError) ]
                /\ UNCHANGED h
           ELSE IF parsed.kind = "null" /\ ReadsInput(serviceName, operationName)
           \* reading a property of null throws inside the operation's generator
           THEN /\ last' = [ last EXCEPT ![f] = Outcome("defect", c, "TypeError", NoError) ]
                /\ UNCHANGED h
           ELSE /\ h' = [ h EXCEPT ![f] = [ c EXCEPT !.pc = "fetch" ] ]
                /\ last' = [ last EXCEPT ![f] = NoOutcome ]
    /\ UNCHANGED << discoveredErrors, invocationsFailed, invocationsOk >>

CallApi(f, serviceName, operationName, input) ==
    /\ CallApiCore(f, serviceName, operationName, input)
    /\ UNCHANGED << clsVars, catVars, loopVars >>

\* Bookkeeping of the chat loop: a failed probe is counted once for the
\* position of its request in the step's plan, however often the step runs.
countRequest(failed) ==
    IF failed /\ loopPc = "stream"
    THEN /\ countedIdx' = countedIdx \cup { planIdx - 1 }
         /\ requestedFailed' =
                IF planIdx - 1 \in countedIdx THEN requestedFailed ELSE requestedFailed + 1
    ELSE UNCHANGED << countedIdx, requestedFailed >>

\* Variant: the record is built from the handler that entered last, as if
\* the probe's data were kept in one place shared by all handlers.
settleShared(f, c, res) ==
    /\ h' = [ h EXCEPT ![f] = IdleHandler ]
    /\ countRequest(~res.ok)
    /\ IF res.ok
       THEN /\ last' = [ last EXCEPT ![f] = Outcome("returned", c, "Success", NoError) ]
            /\ invocationsOk' = invocationsOk + 1
            /\ UNCHANGED << discoveredErrors, invocationsFailed >>
       ELSE LET others == { g \in Fibers \ { f } : h[g].pc # "idle" }
                cur == IF others = {} THEN c ELSE h[CHOOSE g \in others : TRUE]
                err == res.error
                errorTag == err.tag
                message == err.message
                code == IF err.hasCode THEN err.code ELSE 0
                isNew == isNewError(errorTag, cur.service, cur.operation)
            IN  /\ discoveredErrors' =
                       recordError(discoveredErrors, cur.service, cur.operation, errorTag,
                                   code, message, isNew)
                /\ last' = [ last EXCEPT ![f] =
                               Outcome("returned", c,
                                       IF isNew THEN "NEW ERROR DISCOVERED" ELSE "known",
                                       err) ]
                /\ invocationsFailed' = invocationsFailed + 1
                /\ UNCHANGED invocationsOk

\* Effect.map / Effect.catchAll on the result of op(parsedInput).
settle(f, c, res) ==
    /\ h' = [ h EXCEPT ![f] = IdleHandler ]
    /\ countRequest(~res.ok)
    /\ IF res.ok
       THEN /\ last' = [ last EXCEPT ![f] = Outcome("returned", c, "Success", NoError) ]
            /\ invocationsOk' = invocationsOk + 1
            /\ UNCHANGED << discoveredErrors, invocationsFailed >>
       ELSE LET err == res.error
                errorTag == err.tag
                message == err.message
                code == IF err.hasCode THEN err.code ELSE 0
                isNew == isNewError(errorTag, c.service, c.operation)
            IN  /\ discoveredErrors' =
                       recordError(discoveredErrors, c.service, c.operation, errorTag,
                                   code, message, isNew)
                /\ last' = [ last EXCEPT ![f] =
                               Outcome("returned", c,
                                       IF isNew THEN "NEW ERROR DISCOVERED" ELSE "known",
                                       err) ]
                /\ invocationsFailed' = invocationsFailed + 1
                /\ UNCHANGED invocationsOk

loopFrame ==
    UNCHANGED << clsVars, catVars, loopPc, iteration, finishReason, retries, delays, plan,
                 planIdx, streamErrors, saved >>

\* fetch rejects: HttpError, handed to the retry schedule.
FetchThrows(f) ==
    /\ h[f].pc = "fetch"
    /\ LET c == [ h[f] EXCEPT !.requests = @ + 1 ]
       IN  IF scheduleContinues(NetworkError, c.recurrences)
           THEN /\ h' = [ h EXCEPT ![f] =
                            [ c EXCEPT !.recurrences = @ + 1,
                                       !.slept = Append(@, exponential(retryDelayMs,
                                                                       c.recurrences)) ] ]
                /\ UNCHANGED << discoveredErrors, last, invocationsFailed, invocationsOk,
                                countedIdx, requestedFailed >>
           ELSE settle(f, c, [ ok |-> FALSE, error |-> NetworkError ])
    /\ UNCHANGED probes
    /\ loopFrame

\* fetch resolves with a response, whatever its status.
FetchResponds(f, resp) ==
    /\ h[f].pc = "fetch"
    /\ h' = [ h EXCEPT ![f] = [ @ EXCEPT !.requests = @ + 1, !.pc = "json",
                                        !.response = resp ] ]
    /\ UNCHANGED << discoveredErrors, last, probes, invocationsFailed, invocationsOk,
                    countedIdx, requestedFailed >>
    /\ loopFrame

\* response.json() settles and makeRequest runs to its end.
ReadBody(f) ==
    /\ h[f].pc = "json"
    /\ settle(f, h[f], makeRequestResult(h[f].response))
    /\ UNCHANGED probes
    /\ loopFrame

(***************************************************************************)
(* agent/tools.ts: generateServiceJson, the catalog with occurrences,       *)
(* trigger examples and a summary.  The for loop is one FoldError step per  *)
(* element of the errors argument; Summarise is the code after the loop.    *)
(* An input object is [defined, members]: members is the sequence of the    *)
(* object's <<key, value>> pairs in insertion order, defined = FALSE stands  *)
(* for undefined.  isDocumented is "true", "false" or "undefined".          *)
(* The fields httpStatus, handling and firstSeen of an entry, copied from   *)
(* the first error and never read again, are left out.                      *)
(***************************************************************************)
MaxObservations == 5    \* longest errors argument

undefinedInput == [ defined |-> FALSE, members |-> <<>> ]

Input(members) == [ defined |-> TRUE, members |-> members ]

\* error.isDocumented, error.triggerInput, error.category: the property, or
\* undefined when the object has none (the objects recordError pushes).
isDocumentedOf(error) ==
    IF "isDocumented" \in DOMAIN error THEN error.isDocumented ELSE "undefined"

triggerInputOf(error) ==
    IF "triggerInput" \in DOMAIN error THEN error.triggerInput ELSE undefinedInput

categoryOf(error) ==
    IF "category" \in DOMAIN error THEN error.category ELSE "undefined"

truthy(v) == v = "true"

\* JSON.stringify of an input object: the members in insertion order.
RECURSIVE stringifyMembers(_)
stringifyMembers(m) ==
    IF m = <<>> THEN <<>>
    ELSE << m[1][1], ":", m[1][2] >> \o (IF Len(m) > 1 THEN << "," >> ELSE <<>>)
             \o stringifyMembers(Tail(m))

JSONstringify(obj) == << "{" >> \o stringifyMembers(obj.members) \o << "}" >>

EmptyMap == [ k \in {} |-> 0 ]

\* Variant: no cap on the number of examples.
addTriggerExampleNoCap(triggerExamples, error) ==
    LET triggerInput == triggerInputOf(error)
    IN  IF triggerInput.defined
        THEN LET inputStr == JSONstringify(triggerInput)
                 exists == \E i \in 1..Len(triggerExamples) :
                               JSONstringify(triggerExamples[i]) = inputStr
             IN  IF ~exists THEN Append(triggerExamples, triggerInput)
                 ELSE triggerExamples
        ELSE triggerExamples

\* Add unique trigger examples (max 3).
addTriggerExample(triggerExamples, error) ==
    LET triggerInput == triggerInputOf(error)
    IN  IF triggerInput.defined /\ Len(triggerExamples) < 3
        THEN LET inputStr == JSONstringify(triggerInput)
                 exists == \E i \in 1..Len(triggerExamples) :
                               JSONstringify(triggerExamples[i]) = inputStr
             IN  IF ~exists THEN Append(triggerExamples, triggerInput)
                 ELSE triggerExamples
        ELSE triggerExamples

\* The entry created for the first error of a tag in an operation.
newEntry(error) ==
    [ code |-> error.code, category |-> categoryOf(error),
      isDocumented |-> isDocumentedOf(error), message |-> error.message,
      triggerExamples |-> <<>>, occurrences |-> 0 ]

\* Variant: the documented flag follows the latest error.
aggregateRedocument(uniqueError, error) ==
    [ uniqueError EXCEPT !.occurrences = @ + 1,
                         !.isDocumented = isDocumentedOf(error),
                         !.triggerExamples = addTriggerExample(@, error) ]

\* uniqueError.occurrences++ and the trigger examples.
aggregate(uniqueError, error) ==
    [ uniqueError EXCEPT !.occurrences = @ + 1,
                         !.triggerExamples = addTriggerExample(@, error) ]

\* The body of the for loop on operations: [documentedErrors, errors] of the
\* error's operation after the iteration.
foldOperation(ops, error) ==
    LET op0 == IF error.operation \in DOMAIN ops THEN ops[error.operation]
               ELSE [ documentedErrors |-> <<>>, errors |-> EmptyMap ]
        documented ==
            IF /\ truthy(isDocumentedOf(error))
               /\ ~\E i \in 1..Len(op0.documentedErrors) :
                       op0.documentedErrors[i] = error.tag
            THEN Append(op0.documentedErrors, error.tag)
            ELSE op0.documentedErrors
        entry0 == IF error.tag \in DOMAIN op0.errors THEN op0.errors[error.tag]
                  ELSE newEntry(error)
        entries == [ t \in DOMAIN op0.errors \cup { error.tag } |->
                       IF t = error.tag THEN aggregate(entry0, error)
                       ELSE op0.errors[t] ]
    IN  [ documentedErrors |-> documented, errors |-> entries ]

\* The service argument of generateServiceJson.
catalogService == "KV"

NoSummary ==
    [ totalUniqueErrors |-> 0, documentedErrors |-> 0, undocumentedErrors |-> 0,
      operationsCovered |-> {}, documentationCoverage |-> "none" ]

\* One iteration of the loop; errors of another service are filtered out
\* before the loop.
FoldError(error) ==
    /\ catPc = "loop"
    /\ Len(catErrors) < MaxObservations
    /\ catErrors' = Append(catErrors, error)
    /\ IF error.service # catalogService
       THEN UNCHANGED << operations, allUniqueErrors >>
       ELSE LET errorKey == << error.tag, error.code >>
            IN  /\ operations' =
                       [ o \in DOMAIN operations \cup { error.operation } |->
                           IF o = error.operation THEN foldOperation(operations, error)
                           ELSE operations[o] ]
                \* allUniqueErrors.set(errorKey, uniqueError): the value is the
                \* entry object itself, named here by its place in operations
                /\ allUniqueErrors' =
                       [ k \in DOMAIN allUniqueErrors \cup { errorKey } |->
                           IF k = errorKey THEN << error.operation, error.tag >>
                           ELSE allUniqueErrors[k] ]
    /\ UNCHANGED << summary, catPc, clsVars, toolVars, loopVars >>

\* Variant: the quotient truncated.
MathTrunc(num, den) == num \div den

\* Math.round(num / den) for num >= 0 and den > 0: the nearest integer, a
\* half rounded up.
MathRound(num, den) == (2 * num + den) \div (2 * den)

\* Calculate summary stats and return.
Summarise ==
    /\ catPc = "loop"
    /\ LET entryOf(k) == operations[allUniqueErrors[k][1]].errors[allUniqueErrors[k][2]]
           keys == DOMAIN allUniqueErrors
           length == Cardinality(keys)
           documentedCount == Cardinality({ k \in keys : truthy(entryOf(k).isDocumented) })
           undocumentedCount == Cardinality({ k \in keys : ~truthy(entryOf(k).isDocumented) })
           coverage == IF length > 0
                       THEN ToString(MathRound(documentedCount * 100, length)) \o "%"
                       ELSE "N/A"
       IN  summary' = [ totalUniqueErrors |-> length,
                        documentedErrors |-> documentedCount,
                        undocumentedErrors |-> undocumentedCount,
                        operationsCovered |-> DOMAIN operations,
                        documentationCoverage |-> coverage ]
    /\ catPc' = "done"
    /\ UNCHANGED << catErrors, operations, allUniqueErrors, clsVars, toolVars, loopVars >>

CatOff ==
    /\ catErrors = <<>>
    /\ operations = EmptyMap
    /\ allUniqueErrors = EmptyMap
    /\ summary = NoSummary
    /\ catPc = "off"

\* Variant: the report applied to the recorded errors.
RenameErrorRewrites(f, serviceName, operationName, oldTag, newTag) ==
    /\ h[f].pc = "idle"
    /\ LET c == [ IdleHandler EXCEPT !.tool = "RenameError",
                                     !.service = serviceName,
                                     !.operation = operationName ]
       IN  IF getOperation(serviceName, operationName) = "undefined"
           THEN /\ last' = [ last EXCEPT ![f] =
                                Outcome("failed", c, "Operation not found", NoError) ]
                /\ UNCHANGED discoveredErrors
           ELSE /\ last' = [ last EXCEPT ![f] = Outcome("returned", c, "RENAME", NoError) ]
                /\ discoveredErrors' =
                       [ i \in 1..Len(discoveredErrors) |->
                           IF /\ discoveredErrors[i].service = serviceName
                              /\ discoveredErrors[i].operation = operationName
                              /\ discoveredErrors[i].tag = oldTag
                           THEN [ discoveredErrors[i] EXCEPT !.tag = newTag ]
                           ELSE discoveredErrors[i] ]
    /\ UNCHANGED << h, probes, invocationsFailed, invocationsOk, clsVars, catVars,
                    loopVars >>

\* tools.ts RenameError: the operation is looked up and the report is
\* logged.
RenameError(f, serviceName, operationName, oldTag, newTag) ==
    /\ h[f].pc = "idle"
    /\ LET c == [ IdleHandler EXCEPT !.tool = "RenameError",
                                     !.service = serviceName,
                                     !.operation = operationName ]
       IN  IF getOperation(serviceName, operationName) = "undefined"
           THEN last' = [ last EXCEPT ![f] =
                            Outcome("failed", c, "Operation not found", NoError) ]
           ELSE last' = [ last EXCEPT ![f] = Outcome("returned", c, "RENAME", NoError) ]
    /\ UNCHANGED << discoveredErrors, h, probes, invocationsFailed, invocationsOk,
                    clsVars, catVars, loopVars >>

\* The reports of a session: of a recorded tag of an operation, and of a
\* name that is no operation.
RenameNames == { << "KV", "getValue" >>, << "KV", "GetValue" >> }

(***************************************************************************)
(* A session in which the planner awaits each tool call before the next:   *)
(* one fiber.                                                              *)
(***************************************************************************)
ProbeNames ==
    { << "KV", "getValue" >>, << "KV", "putValue" >>, << "D1", "listDatabases" >>,
      << "KV", "GetValue" >>, << "kv", "getValue" >>, << "D1", "getValue" >>,
      << "constructor", "keys" >>, << "constructor", "name" >>,
      << "constructor", "getValue" >> }

ClsOff == clsIn = ClsIdle /\ clsOut = NoError /\ clsPc = "off"

LoopOff ==
    /\ loopPc = "off"
    /\ iteration = 0
    /\ finishReason = "undefined"
    /\ retries = 0
    /\ delays = <<>>
    /\ plan = <<>>
    /\ planIdx = 0
    /\ countedIdx = {}
    /\ requestedFailed = 0
    /\ streamErrors = <<>>
    /\ saved = <<>>

ToolsInit ==
    /\ discoveredErrors = <<>>
    /\ h = [ f \in Fibers |-> IdleHandler ]
    /\ last = [ f \in Fibers |-> NoOutcome ]
    /\ probes = 0
    /\ invocationsFailed = 0
    /\ invocationsOk = 0

Init == ClsOff /\ LoopOff /\ CatOff /\ ToolsInit

Next ==
    \/ \E name \in ProbeNames, input \in InputTexts :
           CallApi("f1", name[1], name[2], input)
    \/ FetchThrows("f1")
    \/ \E resp \in SessionResponses : FetchResponds("f1", resp)
    \/ ReadBody("f1")
    \/ \E name \in RenameNames :
           RenameError("f1", name[1], name[2], "NotFoundError", "KeyNotFoundError")

Spec == Init /\ [][Next]_vars

(***************************************************************************)
(* output/types-generator.ts generateTypes and output/json-generator.ts    *)
(* generateServiceJson / generateAllJson: the two exports the discover     *)
(* command writes.  Objects and Maps are sequences of their members in     *)
(* insertion order, the order in which JavaScript enumerates them.  now is *)
(* the reading of the clock (new Date(), Date.now()) during the export.    *)
(***************************************************************************)
\* The elements of q without repetition, each at its first position.
RECURSIVE dedupe(_)
dedupe(q) ==
    IF q = <<>> THEN <<>>
    ELSE LET init == dedupe(SubSeq(q, 1, Len(q) - 1))
             x == q[Len(q)]
         IN  IF \E i \in 1..Len(init) : init[i] = x THEN init ELSE Append(init, x)

\* String.prototype.toLowerCase on the service names.
toLowerCase(name) ==
    CASE name = "KV" -> "kv"
      [] name = "D1" -> "d1"
      [] name = "R2" -> "r2"
      [] name = "Workers" -> "workers"
      [] OTHER -> name

\* capitalize: the first letter in upper case.
capitalize(name) ==
    CASE name = "getValue" -> "GetValue"
      [] name = "putValue" -> "PutValue"
      [] name = "listDatabases" -> "ListDatabases"
      [] OTHER -> name

toTypeName(service, operation) == capitalize(service) \o capitalize(operation) \o "Error"

\* json-generator.ts generateServiceJson: every error of the service is
\* pushed under its operation.
generateServiceJson(service, errors, now) ==
    LET serviceErrors == SelectSeq(errors, LAMBDA e : e.service = service)
        names == dedupe([ i \in 1..Len(serviceErrors) |-> serviceErrors[i].operation ])
        entry(e) == [ tag |-> e.tag, code |-> e.code, message |-> e.message ]
        errorsOf(o) ==
            LET mine == SelectSeq(serviceErrors, LAMBDA e : e.operation = o)
            IN  [ i \in 1..Len(mine) |-> entry(mine[i]) ]
    IN  [ service |-> service, generatedAt |-> now,
          operations |-> [ i \in 1..Len(names) |->
                             [ operation |-> names[i], errors |-> errorsOf(names[i]) ] ] ]

\* json-generator.ts generateAllJson: one catalog per service, under the
\* service name in lower case (a later service of the same key replaces the
\* earlier catalog).
generateAllJson(errors, now) ==
    LET names == dedupe([ i \in 1..Len(errors) |-> errors[i].service ])
        keys == dedupe([ i \in 1..Len(names) |-> toLowerCase(names[i]) ])
        lastOf(k) == names[CHOOSE i \in 1..Len(names) :
                               /\ toLowerCase(names[i]) = k
                               /\ \A j \in 1..Len(names) :
                                      toLowerCase(names[j]) = k => j <= i]
    IN  [ i \in 1..Len(keys) |->
            [ key |-> keys[i],
              catalog |-> generateServiceJson(lastOf(keys[i]), errors, now) ] ]

\* Variant: no deduplication of the errors.
generateTypesAll(errors, now) ==
    LET serviceNames == dedupe([ i \in 1..Len(errors) |-> errors[i].service ])
        operationsOf(sv) ==
            LET mine == SelectSeq(errors, LAMBDA e : e.service = sv)
            IN  dedupe([ i \in 1..Len(mine) |-> mine[i].operation ])
        variantsOf(sv, o) ==
            LET mine == SelectSeq(errors, LAMBDA e : e.service = sv /\ e.operation = o)
            IN  [ i \in 1..Len(mine) |-> << mine[i].tag, mine[i].code >> ]
    IN  [ generated |-> now,
          services |-> [ i \in 1..Len(serviceNames) |->
              [ service |-> serviceNames[i],
                types |-> [ j \in 1..Len(operationsOf(serviceNames[i])) |->
                    [ name |-> toTypeName(serviceNames[i], operationsOf(serviceNames[i])[j]),
                      variants |-> variantsOf(serviceNames[i],
                                              operationsOf(serviceNames[i])[j]) ] ] ] ] ]

\* types-generator.ts generateTypes: the errors deduplicated by service,
\* operation, tag and code, grouped by service and operation, one union
\* type per operation with one variant per error.
generateTypes(errors, now) ==
    LET uniqueErrors ==
            SelectSeq([ i \in 1..Len(errors) |-> [ index |-> i, error |-> errors[i] ] ],
                      LAMBDA x : ~\E j \in 1..(x.index - 1) :
                                     /\ errors[j].service = x.error.service
                                     /\ errors[j].operation = x.error.operation
                                     /\ errors[j].tag = x.error.tag
                                     /\ errors[j].code = x.error.code)
        unique == [ i \in 1..Len(uniqueErrors) |-> uniqueErrors[i].error ]
        serviceNames == dedupe([ i \in 1..Len(unique) |-> unique[i].service ])
        operationsOf(sv) ==
            LET mine == SelectSeq(unique, LAMBDA e : e.service = sv)
            IN  dedupe([ i \in 1..Len(mine) |-> mine[i].operation ])
        variantsOf(sv, o) ==
            LET mine == SelectSeq(unique, LAMBDA e : e.service = sv /\ e.operation = o)
            IN  [ i \in 1..Len(mine) |-> << mine[i].tag, mine[i].code >> ]
    IN  [ generated |-> now,
          services |-> [ i \in 1..Len(serviceNames) |->
              [ service |-> serviceNames[i],
                types |-> [ j \in 1..Len(operationsOf(serviceNames[i])) |->
                    [ name |-> toTypeName(serviceNames[i], operationsOf(serviceNames[i])[j]),
                      variants |-> variantsOf(serviceNames[i],
                                              operationsOf(serviceNames[i])[j]) ] ] ] ] ]

\* The save step of the discover command: nothing is written for an empty
\* ledger.
NothingSaved == [ written |-> FALSE, at |-> 0, catalogs |-> <<>>, types |-> <<>> ]

saveResults(errors, now) ==
    IF Len(errors) > 0
    THEN [ written |-> TRUE, at |-> now, catalogs |-> generateAllJson(errors, now),
           types |-> generateTypes(errors, now) ]
    ELSE NothingSaved

\* The readings of the clock.
Times == { 1, 2 }

(***************************************************************************)
(* cli.ts discover: the chat loop.  A step of the loop is one              *)
(* chat.streamText call: the planner answers the prompt with a list of     *)
(* tool calls (its plan), the toolkit runs them in order, and the stream   *)
(* ends with a finish part, or fails.  Effect.retry re-runs the whole      *)
(* processStream effect, so the same prompt is sent again and the plan is  *)
(* run again from its first tool call.                                     *)
(***************************************************************************)
MAX_ITERATIONS == 10
streamRetryDelayMs == 30000
streamRetries == 3

ListServicesCall == [ tool |-> "ListServices", service |-> "", operation |-> "",
                      input |-> "" ]

\* The tool calls of the planner: a probe, a tool that is no probe, a probe
\* of a name that is no operation, and a probe whose input is null.
PlanCalls ==
    { [ tool |-> "CallApi", service |-> "KV", operation |-> "getValue",
        input |-> "{\"id\":\"a\"}" ],
      ListServicesCall,
      [ tool |-> "CallApi", service |-> "KV", operation |-> "GetValue",
        input |-> "{\"id\":\"a\"}" ],
      [ tool |-> "CallApi", service |-> "KV", operation |-> "getValue",
        input |-> "null" ] }

Plans == SeqsUpTo(PlanCalls, MaxPlan)

RECURSIVE planProbes(_)
planProbes(p) ==
    IF p = <<>> THEN 0
    ELSE (IF Head(p).tool = "CallApi" THEN 1 ELSE 0) + planProbes(Tail(p))

\* The transport of this specification always answers: with a result or with
\* a provider error.
DiscoverResponses ==
    { Http(200, Envelope(TRUE, <<>>, TRUE)),
      Http(404, Envelope(FALSE, <<10013>>, FALSE)) }

\* The failures of chat.streamText that are not failures of a tool: a rate
\* limit of the model provider, and any other.
StreamErrors == { "rate_limit", "other" }

StartDiscover ==
    /\ loopPc = "start"
    /\ iteration' = 0
    /\ loopPc' = "while"
    /\ UNCHANGED << clsVars, catVars, toolVars, finishReason, retries, delays, plan,
                    planIdx, countedIdx, requestedFailed, streamErrors, saved >>

\* Variant: one round more.
whileConditionInclusive(i) == i <= MAX_ITERATIONS

\* while (iteration < MAX_ITERATIONS)
whileCondition(i) == i < MAX_ITERATIONS

\* A new step of the loop; the retry schedule of the step starts afresh.
LoopEnter(p) ==
    /\ loopPc = "while"
    /\ whileCondition(iteration)
    /\ probes + planProbes(p) <= MaxProbes
    /\ iteration' = iteration + 1
    /\ finishReason' = "undefined"
    /\ retries' = 0
    /\ delays' = <<>>
    /\ streamErrors' = <<>>
    /\ plan' = p
    /\ planIdx' = 1
    /\ countedIdx' = {}
    /\ loopPc' = "stream"
    /\ UNCHANGED << clsVars, catVars, toolVars, requestedFailed, saved >>

LoopExit ==
    /\ loopPc = "while"
    /\ ~whileCondition(iteration)
    /\ loopPc' = "save"
    /\ UNCHANGED << clsVars, catVars, toolVars, iteration, finishReason, retries, delays,
                    plan, planIdx, countedIdx, requestedFailed, streamErrors, saved >>

\* The toolkit runs the next tool call of the planner's answer.  The tools
\* are made without a failureMode, so a failure of the handler (Effect.fail)
\* is a failure of the stream; an exception thrown in the handler is a
\* defect of the fiber.
StreamToolCall ==
    /\ loopPc = "stream"
    /\ h["f1"].pc = "idle"
    /\ planIdx <= Len(plan)
    /\ planIdx' = planIdx + 1
    /\ IF plan[planIdx].tool = "CallApi"
       THEN /\ CallApiCore("f1", plan[planIdx].service, plan[planIdx].operation,
                           plan[planIdx].input)
            /\ loopPc' = CASE last'["f1"].kind = "failed" -> "failing"
                           [] last'["f1"].kind = "defect" -> "dying"
                           [] OTHER -> "stream"
       ELSE UNCHANGED << toolVars, loopPc >>
    /\ UNCHANGED << clsVars, catVars, iteration, finishReason, retries, delays, plan,
                    countedIdx, requestedFailed, streamErrors, saved >>

\* Variant: only a rate limit is retried.
retryStreamRateLimit(error) == error = "rate_limit"

\* The schedule of Effect.retry has no filter on the error (tapInput only
\* logs): every failure is retried.
retryStream(error) == TRUE

\* processStream fails: with a failure of the stream itself, or with the
\* failure of a tool handler.  Schedule.exponential(30000) composed with
\* Schedule.recurs(3) decides; after the last retry catchAll sets
\* finishReason.
StreamFails(error) ==
    /\ \/ loopPc = "stream" /\ h["f1"].pc = "idle" /\ error \in StreamErrors
       \/ loopPc = "failing" /\ error = "tool"
    /\ streamErrors' = Append(streamErrors, error)
    /\ IF retryStream(error) /\ retries < streamRetries
       THEN /\ probes + planProbes(plan) <= MaxProbes
            /\ retries' = retries + 1
            /\ delays' = Append(delays, exponential(streamRetryDelayMs, retries))
            /\ planIdx' = 1
            /\ loopPc' = "stream"
            /\ UNCHANGED finishReason
       ELSE /\ finishReason' = "error"
            /\ loopPc' = "after"
            /\ UNCHANGED << retries, delays, planIdx >>
    /\ UNCHANGED << clsVars, catVars, toolVars, iteration, plan, countedIdx,
                    requestedFailed, saved >>

\* A defect is neither retried by Effect.retry nor caught by
\* Effect.catchAll: the command ends without reaching the save step.
HandlerDies ==
    /\ loopPc = "dying"
    /\ loopPc' = "died"
    /\ UNCHANGED << clsVars, catVars, toolVars, iteration, finishReason, retries, delays,
                    plan, planIdx, countedIdx, requestedFailed, streamErrors, saved >>

\* The finish part of the stream: "tool-calls" when the answer held tool
\* calls, "stop" when it was text only.
StreamFinishes ==
    /\ loopPc = "stream"
    /\ h["f1"].pc = "idle"
    /\ planIdx > Len(plan)
    /\ finishReason' = IF Len(plan) > 0 THEN "tool-calls" ELSE "stop"
    /\ loopPc' = "after"
    /\ UNCHANGED << clsVars, catVars, toolVars, iteration, retries, delays, plan, planIdx,
                    countedIdx, requestedFailed, streamErrors, saved >>

\* if (finishReason !== "tool-calls") break; otherwise sleep and loop.
AfterStream ==
    /\ loopPc = "after"
    /\ loopPc' = IF finishReason # "tool-calls" THEN "save" ELSE "while"
    /\ UNCHANGED << clsVars, catVars, toolVars, iteration, finishReason, retries, delays,
                    plan, planIdx, countedIdx, requestedFailed, streamErrors, saved >>

\* Variant: the ledger emptied once it is saved.
SaveResultsAndClear(now) ==
    /\ loopPc = "save"
    /\ saved' = Append(saved, saveResults(discoveredErrors, now))
    /\ discoveredErrors' = <<>>
    /\ loopPc' = "done"
    /\ UNCHANGED << clsVars, catVars, h, last, probes, invocationsFailed, invocationsOk,
                    iteration, finishReason, retries, delays, plan, planIdx, countedIdx,
                    requestedFailed, streamErrors >>

\* Save results.
SaveResults(now) ==
    /\ loopPc = "save"
    /\ saved' = Append(saved, saveResults(discoveredErrors, now))
    /\ loopPc' = "done"
    /\ UNCHANGED << clsVars, catVars, toolVars, iteration, finishReason, retries, delays,
                    plan, planIdx, countedIdx, requestedFailed, streamErrors >>

DiscoverInit ==
    /\ ClsOff
    /\ CatOff
    /\ ToolsInit
    /\ loopPc = "start"
    /\ iteration = 0
    /\ finishReason = "undefined"
    /\ retries = 0
    /\ delays = <<>>
    /\ plan = <<>>
    /\ planIdx = 0
    /\ countedIdx = {}
    /\ requestedFailed = 0
    /\ streamErrors = <<>>
    /\ saved = <<>>

DiscoverNext ==
    \/ StartDiscover
    \/ \E p \in Plans : LoopEnter(p)
    \/ LoopExit
    \/ StreamToolCall
    \/ \E resp \in DiscoverResponses : FetchResponds("f1", resp)
    \/ ReadBody("f1")
    \/ \E error \in StreamErrors \cup { "tool" } : StreamFails(error)
    \/ HandlerDies
    \/ StreamFinishes
    \/ AfterStream
    \/ \E now \in Times : SaveResults(now)

SpecDiscover == DiscoverInit /\ [][DiscoverNext]_vars

(***************************************************************************)
(* The classifier specification.                                           *)
(***************************************************************************)
ClassifyInit ==
    /\ clsIn \in [ response : Responses, httpStatus : Statuses ]
    /\ clsOut = NoError
    /\ clsPc = "input"
    /\ LoopOff
    /\ CatOff
    /\ ToolsInit

ClassifyNext == Classify

SpecClassify == ClassifyInit /\ [][ClassifyNext]_vars

(***************************************************************************)
(* The catalog specifications: the errors argument of generateServiceJson  *)
(* is any sequence of at most MaxObservations errors of a set.             *)
(***************************************************************************)
Observation(service, operation, tag, category, code, isDocumented, triggerInput) ==
    [ service |-> service, operation |-> operation, tag |-> tag,
      category |-> category, code |-> code, message |-> "m1",
      isDocumented |-> isDocumented, triggerInput |-> triggerInput ]

\* Errors of two operations: one tag seen with two codes, one tuple seen
\* with both values of isDocumented, and an error of another service.
CatalogObservations ==
    { Observation("KV", "getValue", "NotFoundError", "not_found", 10013, "true",
                  undefinedInput),
      Observation("KV", "getValue", "NotFoundError", "not_found", 10009, "true",
                  undefinedInput),
      Observation("KV", "getValue", "NotFoundError", "not_found", 10013, "false",
                  undefinedInput),
      Observation("KV", "getValue", "UnknownCloudflareError", "unknown", 7001, "false",
                  undefinedInput),
      Observation("KV", "putValue", "UnknownCloudflareError", "unknown", 7003, "false",
                  undefinedInput),
      Observation("KV", "putValue", "ValidationError", "validation", 10033, "false",
                  undefinedInput),
      Observation("D1", "listDatabases", "AuthenticationError", "authentication", 10000,
                  "true", undefinedInput) }

\* Errors of one tuple with different inputs, two of them the same object
\* with its members in a different order, and one without an input.
ExampleInputs ==
    { undefinedInput,
      Input(<< << "id", "a" >> >>),
      Input(<< << "id", "b" >> >>),
      Input(<< << "id", "c" >> >>),
      Input(<< >>),
      Input(<< << "id", "a" >>, << "ttl", "1" >> >>),
      Input(<< << "ttl", "1" >>, << "id", "a" >> >>) }

ExampleObservations ==
    { Observation("KV", "getValue", "NotFoundError", "not_found", 10013, "true", i) :
          i \in ExampleInputs }

CatalogInit ==
    /\ ClsOff
    /\ LoopOff
    /\ ToolsInit
    /\ catErrors = <<>>
    /\ operations = EmptyMap
    /\ allUniqueErrors = EmptyMap
    /\ summary = NoSummary
    /\ catPc = "loop"

CatalogNext ==
    \/ \E error \in CatalogObservations : FoldError(error)
    \/ Summarise

SpecCatalog == CatalogInit /\ [][CatalogNext]_vars

ExamplesNext ==
    \/ \E error \in ExampleObservations : FoldError(error)
    \/ Summarise

SpecExamples == CatalogInit /\ [][ExamplesNext]_vars

(***************************************************************************)
(* The save step on its own: the ledger is any sequence of at most         *)
(* MaxLedger records of the kind recordError pushes, and the step is run   *)
(* up to MaxExports times on it.                                           *)
(***************************************************************************)
MaxLedger == 3      \* longest ledger given to the save step
MaxExports == 2     \* runs of the save step on one ledger

LedgerRecord(service, operation, tag, code) ==
    [ service |-> service, operation |-> operation, tag |-> tag, code |-> code,
      message |-> "m1" ]

ExportRecords ==
    { LedgerRecord("KV", "getValue", "NotFoundError", 10013),
      LedgerRecord("KV", "getValue", "NotFoundError", 10009),
      LedgerRecord("KV", "putValue", "ValidationError", 10033),
      LedgerRecord("D1", "listDatabases", "AuthenticationError", 10000) }

Ledgers == SeqsUpTo(ExportRecords, MaxLedger)

\* A second run of the save step on the same ledger.
ExportAgain ==
    /\ loopPc = "done"
    /\ Len(saved) < MaxExports
    /\ loopPc' = "save"
    /\ UNCHANGED << clsVars, catVars, toolVars, iteration, finishReason, retries, delays,
                    plan, planIdx, countedIdx, requestedFailed, streamErrors, saved >>

ExportInit ==
    /\ ClsOff
    /\ CatOff
    /\ discoveredErrors \in Ledgers
    /\ h = [ f \in Fibers |-> IdleHandler ]
    /\ last = [ f \in Fibers |-> NoOutcome ]
    /\ probes = Len(discoveredErrors)
    /\ invocationsFailed = Len(discoveredErrors)
    /\ invocationsOk = 0
    /\ loopPc = "save"
    /\ iteration = 1
    /\ finishReason = "stop"
    /\ retries = 0
    /\ delays = <<>>
    /\ plan = <<>>
    /\ planIdx = 1
    /\ countedIdx = {}
    /\ requestedFailed = Len(discoveredErrors)
    /\ streamErrors = <<>>
    /\ saved = <<>>

ExportNext ==
    \/ \E now \in Times : SaveResults(now)
    \/ ExportAgain

SpecExport == ExportInit /\ [][ExportNext]_vars

(***************************************************************************)
(* End to end: probes of KV.getValue with one input, then the catalog of   *)
(* tools.ts generateServiceJson built from the ledger the probes left.     *)
(***************************************************************************)
probedInput == "{\"id\":\"a\"}"

Probe ==
    /\ catPc = "off"
    /\ CallApi("f1", "KV", "getValue", probedInput)

\* generateServiceJson("KV", discoveredErrors) is entered.
CatalogStart ==
    /\ catPc = "off"
    /\ h["f1"].pc = "idle"
    /\ probes > 0
    /\ catPc' = "loop"
    /\ UNCHANGED << catErrors, operations, allUniqueErrors, summary, clsVars, toolVars,
                    loopVars >>

\* The next iteration of the for loop over the ledger.
FoldLedger ==
    /\ Len(catErrors) < Len(discoveredErrors)
    /\ FoldError(discoveredErrors[Len(catErrors) + 1])

\* The loop is over.
SummariseLedger ==
    /\ Len(catErrors) = Len(discoveredErrors)
    /\ Summarise

EndToEndNext ==
    \/ Probe
    \/ FetchThrows("f1")
    \/ \E resp \in SessionResponses : FetchResponds("f1", resp)
    \/ ReadBody("f1")
    \/ CatalogStart
    \/ FoldLedger
    \/ SummariseLedger

SpecEndToEnd == Init /\ [][EndToEndNext]_vars

(***************************************************************************)
(* Two CallApi handlers at once: the planner's reply holds several tool    *)
(* calls and the second handler is entered while the first is suspended    *)
(* in fetch or in response.json().                                         *)
(***************************************************************************)
ConcurrentNames == { << "KV", "getValue" >>, << "D1", "listDatabases" >> }

ConcurrentResponses ==
    { Http(200, Envelope(TRUE, <<>>, TRUE)),
      Http(404, Envelope(FALSE, <<10013>>, FALSE)),
      Http(401, Envelope(FALSE, <<10000>>, FALSE)),
      Http(429, Envelope(FALSE, <<6003>>, FALSE)) }

\* A handler is entered: the first of the reply, or one more while another
\* is suspended.
CallApiConcurrently(f, serviceName, operationName) ==
    /\ probes = 0 \/ \E g \in Fibers \ { f } : h[g].pc # "idle"
    /\ CallApi(f, serviceName, operationName, probedInput)

ConcurrentNext ==
    \/ \E f \in Fibers, name \in ConcurrentNames : CallApiConcurrently(f, name[1], name[2])
    \/ \E f \in Fibers : FetchThrows(f)
    \/ \E f \in Fibers, resp \in ConcurrentResponses : FetchResponds(f, resp)
    \/ \E f \in Fibers : ReadBody(f)

SpecConcurrent == Init /\ [][ConcurrentNext]_vars

(***************************************************************************)
(* The claims.                                                             *)
(***************************************************************************)
Settled(f) == last[f].kind = "returned" /\ last[f].error.tag # "none"

IsIncreasing(q) == \A i \in 1..(Len(q) - 1) : q[i] < q[i + 1]

\* C1: every probe whose invocation fails appends exactly one record and
\* every probe whose invocation succeeds appends none: the ledger is as long
\* as the number of failed invocations.
C1_LedgerCountsFailedProbes == Len(discoveredErrors) = invocationsFailed

C1_Witness ==
    /\ invocationsFailed = 1
    /\ invocationsOk = 1
    /\ Len(discoveredErrors) = 1
    /\ last["f1"].text = "known"

\* C2: at the end of the session the ledger holds one record per failed
\* probe the planner requested, also when a step of the loop was retried
\* after some of its probes had been recorded.
C2_OneRecordPerRequestedProbe ==
    loopPc = "done" => Len(discoveredErrors) = requestedFailed

\* C3: no ledger record has a transport-level tag (HttpError, ParseError).
C3_NoTransportTagInLedger ==
    \A i \in 1..Len(discoveredErrors) : discoveredErrors[i].tag \notin TransportTags

\* C4: a probe whose failure is RateLimit is surfaced only after it was
\* retried up to the attempt cap, with strictly increasing delays.
C4_RateLimitRetriedToCap ==
    \A f \in Fibers :
        (Settled(f) /\ last[f].error.tag = "RateLimitError") =>
            /\ last[f].requests = retryAttempts + 1
            /\ Len(last[f].slept) = retryAttempts
            /\ IsIncreasing(last[f].slept)

\* C5: a probe whose failure is of any kind other than RateLimit performed
\* exactly one transport request and slept no retry delay.
C5_OtherFailuresNotRetried ==
    \A f \in Fibers :
        (Settled(f) /\ last[f].error.tag # "RateLimitError") =>
            /\ last[f].requests = 1
            /\ last[f].slept = <<>>

C5_Witness ==
    /\ Len(discoveredErrors) = 2
    /\ discoveredErrors[1].tag = "ValidationError"
    /\ discoveredErrors[2].tag = "NotFoundError"
    /\ last["f1"].error.tag = "NotFoundError"
    /\ last["f1"].requests = 1

Classified == clsPc = "classified"

HasDetails == clsIn.response.errors.present /\ Len(clsIn.response.errors.list) > 0

FirstCode == clsIn.response.errors.list[1].code

\* C6: with a non-empty errors list whose first code is in the code table,
\* the result has the tag the code table gives that code, for every
\* httpStatus and whatever the later elements are.
C6_CodeTableFirst ==
    (Classified /\ HasDetails /\ FirstCode \in DOMAIN COMMON_ERROR_CODES) =>
        /\ clsOut.tag = COMMON_ERROR_CODES[FirstCode]
        /\ clsOut.code = FirstCode

C6_Witness ==
    /\ Classified
    /\ Len(clsIn.response.errors.list) = 2
    /\ FirstCode = 6003
    /\ clsIn.response.errors.list[2].code = 9103
    /\ clsIn.httpStatus = 404
    /\ clsOut.tag = "RateLimitError"

\* C7: code 10000 seen with HTTP status 401 is classified Authentication.
C7_Code10000IsAuthentication ==
    (Classified /\ HasDetails /\ FirstCode = 10000 /\ clsIn.httpStatus = 401) =>
        Category(clsOut.tag) = "Authentication"

\* C8: with an empty or absent errors list the result has category Unknown
\* and code 0, for every httpStatus.
C8_NoDetailsIsUnknown ==
    (Classified /\ ~HasDetails) =>
        /\ Category(clsOut.tag) = "Unknown"
        /\ clsOut.code = 0
        /\ clsOut.httpStatus = clsIn.httpStatus

C8_Witness ==
    /\ Classified
    /\ clsIn.response.errors.present
    /\ clsIn.response.errors.list = <<>>
    /\ clsIn.httpStatus = 429
    /\ clsOut.tag = "CloudflareError"

\* The status table as the specification states it.
StatedStatusCategory ==
    (400 :> "Validation") @@ (401 :> "Authentication") @@ (403 :> "Authentication") @@
    (404 :> "NotFound") @@ (409 :> "AlreadyExists") @@ (429 :> "RateLimit")

\* C9: when the first code is not in the code table and the httpStatus is
\* one of 400, 401, 403, 404, 409, 429, the category is the one stated for
\* that status and the provider's code is kept.
C9_StatusFallback ==
    (/\ Classified
     /\ HasDetails
     /\ FirstCode \notin DOMAIN COMMON_ERROR_CODES
     /\ clsIn.httpStatus \in DOMAIN StatedStatusCategory) =>
        /\ Category(clsOut.tag) = StatedStatusCategory[clsIn.httpStatus]
        /\ clsOut.code = FirstCode

C9_Witness ==
    /\ Classified
    /\ HasDetails
    /\ FirstCode = 10013
    /\ clsIn.httpStatus = 409
    /\ clsOut.tag = "AlreadyExistsError"
    /\ clsOut.code = 10013

\* The last record of the ledger is the one of fiber f's settled probe.
RecordedLast(f) ==
    /\ Len(discoveredErrors) > 0
    /\ LET r == discoveredErrors[Len(discoveredErrors)]
       IN  /\ r.service = last[f].service
           /\ r.operation = last[f].operation
           /\ r.tag = last[f].error.tag
           /\ r.code = last[f].error.code

InNeitherTable(e) ==
    /\ e.hasCode
    /\ e.code \notin DOMAIN COMMON_ERROR_CODES
    /\ e.httpStatus \notin DOMAIN HTTP_STATUS_TO_ERROR

\* C10: a probe whose error has a code outside the code table and a status
\* outside the status table is classified Unknown, recorded under a tag that
\* no operation lists, and reported as a new error, for every operation.
C10_UnclassifiedIsUndocumented ==
    /\ \A s \in DOMAIN services : \A o \in DOMAIN services[s] :
           \A t \in services[s][o] : Category(t) # "Unknown"
    /\ (Settled("f1") /\ InNeitherTable(last["f1"].error)) =>
           /\ Category(last["f1"].error.tag) = "Unknown"
           /\ last["f1"].text = "NEW ERROR DISCOVERED"
           /\ RecordedLast("f1")
           /\ ~(last["f1"].error.tag \in knownErrors(last["f1"].service, last["f1"].operation))

C10_Witness ==
    /\ Settled("f1")
    /\ last["f1"].service = "KV"
    /\ last["f1"].operation = "putValue"
    /\ last["f1"].error.tag = "UnknownCloudflareError"
    /\ last["f1"].error.code = 7001
    /\ last["f1"].error.httpStatus = 405
    /\ last["f1"].text = "NEW ERROR DISCOVERED"

\* The response behind the outcome of fiber f's last probe, for a probe that
\* reached the transport.
Requested(f) == last[f].kind = "returned" /\ last[f].requests > 0

GoodResponse(r) == responseOk(r.status) /\ r.json /\ r.body.success /\ r.body.hasResult

ServicePositions == { i \in 1..Len(catErrors) : catErrors[i].service = catalogService }

TupleOf(error) == << error.service, error.operation, error.category, error.code >>

ObservedTuples == { TupleOf(catErrors[i]) : i \in ServicePositions }

\* The entries of the catalog, each named << operation, key >>.
CatalogEntries ==
    UNION { { << o, t >> : t \in DOMAIN operations[o].errors } : o \in DOMAIN operations }

EntryAt(en) == operations[en[1]].errors[en[2]]

EntriesOfTuple(tp) ==
    { en \in CatalogEntries :
          /\ en[1] = tp[2]
          /\ EntryAt(en).category = tp[3]
          /\ EntryAt(en).code = tp[4] }

\* C12: the catalog holds exactly one entry per unique (service, operation,
\* category, providerCode) tuple observed: every observed tuple has one
\* entry of its own and there are as many entries as tuples.
C12_OneEntryPerTuple ==
    /\ \A tp \in ObservedTuples : Cardinality(EntriesOfTuple(tp)) = 1
    /\ Cardinality(CatalogEntries) = Cardinality(ObservedTuples)

TimesObserved(tp) == Cardinality({ i \in ServicePositions : TupleOf(catErrors[i]) = tp })

\* C13: N observations of one tuple, interleaved with any others, give a
\* single entry for that tuple whose occurrences is N.
C13_OccurrencesCountTuple ==
    \A tp \in ObservedTuples :
        /\ Cardinality(EntriesOfTuple(tp)) = 1
        /\ \A en \in EntriesOfTuple(tp) : EntryAt(en).occurrences = TimesObserved(tp)

\* Two inputs are structurally equal when they have the same members.
Members(obj) == { obj.members[i] : i \in 1..Len(obj.members) }

StructurallyEqual(a, b) == Members(a) = Members(b)

SameSerialization(a, b) == JSONstringify(a) = JSONstringify(b)

\* The list of examples of the entry the error is folded into, before the
\* step (empty when the step creates the entry).
ExamplesBefore(error) ==
    IF /\ error.operation \in DOMAIN operations
       /\ error.tag \in DOMAIN operations[error.operation].errors
    THEN operations[error.operation].errors[error.tag].triggerExamples
    ELSE <<>>

\* C14, as stated: a list of examples never holds more than 3 elements nor
\* two structurally equal inputs, and a step appends the observation's input
\* exactly when no structurally equal input is present and the list has
\* fewer than 3 elements, leaving the earlier elements in place.
C14_ExamplesStructurallyUnique ==
    [][ catErrors' # catErrors =>
          LET error == catErrors'[Len(catErrors')]
              before == ExamplesBefore(error)
              after == operations'[error.operation].errors[error.tag].triggerExamples
              input == triggerInputOf(error)
              present == \E i \in 1..Len(before) : StructurallyEqual(before[i], input)
          IN  /\ Len(after) <= 3
              /\ \A i, j \in 1..Len(after) :
                     StructurallyEqual(after[i], after[j]) => i = j
              /\ after = IF input.defined /\ ~present /\ Len(before) < 3
                         THEN Append(before, input) ELSE before ]_vars

\* C14, amended: the same with equality of the serialized inputs: a list
\* of examples never holds more than 3 elements nor two inputs with the same
\* serialization, and a step appends the observation's input exactly when it
\* is defined, no input with the same serialization is present and the list
\* has fewer than 3 elements, leaving the earlier elements in place.
C14_ExamplesSerializedUnique ==
    [][ catErrors' # catErrors =>
          LET error == catErrors'[Len(catErrors')]
              before == ExamplesBefore(error)
              after == operations'[error.operation].errors[error.tag].triggerExamples
              input == triggerInputOf(error)
              present == \E i \in 1..Len(before) : SameSerialization(before[i], input)
          IN  /\ Len(after) <= 3
              /\ \A i, j \in 1..Len(after) :
                     SameSerialization(after[i], after[j]) => i = j
              /\ after = IF input.defined /\ ~present /\ Len(before) < 3
                         THEN Append(before, input) ELSE before ]_vars

\* Five observations of a tuple: an input seen twice, three different
\* inputs kept in the order seen, and a fourth different input dropped.
C14_Witness ==
    /\ Len(catErrors) = 5
    /\ catErrors[1].triggerInput = Input(<< << "id", "b" >> >>)
    /\ catErrors[2].triggerInput = Input(<< << "id", "b" >> >>)
    /\ catErrors[3].triggerInput = Input(<< << "id", "a" >> >>)
    /\ catErrors[4].triggerInput = Input(<< << "id", "c" >> >>)
    /\ catErrors[5].triggerInput = Input(<< >>)
    /\ operations["getValue"].errors["NotFoundError"].triggerExamples =
           << Input(<< << "id", "b" >> >>), Input(<< << "id", "a" >> >>),
              Input(<< << "id", "c" >> >>) >>
    /\ operations["getValue"].errors["NotFoundError"].occurrences = 5

\* The first error of catErrors that was folded into entry en.
FirstFolded(en) ==
    LET positions == { i \in ServicePositions :
                           catErrors[i].operation = en[1] /\ catErrors[i].tag = en[2] }
    IN  catErrors[CHOOSE i \in positions : \A j \in positions : i <= j]

\* C15: an entry's isDocumented is that of the first observation folded into
\* it, whatever the later observations of the same tuple say.
C15_DocumentedIsFirstSeen ==
    \A en \in CatalogEntries : EntryAt(en).isDocumented = isDocumentedOf(FirstFolded(en))

C15_Witness ==
    /\ Len(catErrors) = 3
    /\ TupleOf(catErrors[1]) = TupleOf(catErrors[2])
    /\ TupleOf(catErrors[1]) = TupleOf(catErrors[3])
    /\ catErrors[1].isDocumented = "true"
    /\ catErrors[2].isDocumented = "false"
    /\ catErrors[3].isDocumented = "true"
    /\ operations["getValue"].errors["NotFoundError"].isDocumented = "true"
    /\ operations["getValue"].errors["NotFoundError"].occurrences = 3

\* c is the integer nearest to 100 * part / whole, a half rounded up.
NearestPercent(c, part, whole) ==
    /\ 2 * c * whole - whole <= 200 * part
    /\ 200 * part < 2 * c * whole + whole

\* C17: the summary reports total = documented + undocumented and the
\* coverage round(documented / total * 100) as a percentage (2 and 3 give 5
\* and "40%"); with a total of 0 the coverage is "N/A".
C17_CoverageMath ==
    catPc = "done" =>
        /\ summary.totalUniqueErrors = summary.documentedErrors + summary.undocumentedErrors
        /\ summary.totalUniqueErrors = 0 => summary.documentationCoverage = "N/A"
        /\ summary.totalUniqueErrors > 0 =>
               \E c \in 0..100 :
                   /\ NearestPercent(c, summary.documentedErrors, summary.totalUniqueErrors)
                   /\ summary.documentationCoverage = ToString(c) \o "%"
        /\ (summary.documentedErrors = 2 /\ summary.undocumentedErrors = 3) =>
               /\ summary.totalUniqueErrors = 5
               /\ summary.documentationCoverage = "40%"

C17_Witness ==
    /\ catPc = "done"
    /\ summary.documentedErrors = 2
    /\ summary.undocumentedErrors = 3
    /\ summary.totalUniqueErrors = 5
    /\ summary.documentationCoverage = "40%"

\* C16: every record a probe puts in the ledger carries isDocumented, true
\* exactly when its tag is among the known errors of the probed operation.
C16_RecordCarriesDocumented ==
    \A i \in 1..Len(discoveredErrors) :
        LET r == discoveredErrors[i]
        IN  truthy(isDocumentedOf(r)) <=> (r.tag \in knownErrors(r.service, r.operation))

\* A CallApi of fiber f has ended.
Ended(f) == last[f].kind # "none" /\ last[f].tool = "CallApi"

\* C18: a CallApi for a name pair that is not a registered service and one
\* of its operations fails at once with the operation-not-found outcome,
\* without a transport request and without a record in the ledger.
C18_UnknownOperationNotFound ==
    \A f \in Fibers :
        (Ended(f) /\ ~HasOperation(last[f].service, last[f].operation)) =>
            /\ last[f].kind = "failed"
            /\ last[f].text = "Operation not found"
            /\ last[f].requests = 0
            /\ last[f].error = NoError

WellFormedObject(input) == parseInput(input).ok /\ parseInput(input).kind = "object"

\* C19: the operation is invoked only with a well-formed object input: "",
\* whitespace and "{}" stand for the empty object and the probe proceeds;
\* every other input that is not a well-formed JSON object gives the
\* invalid-input outcome, with no invocation and no ledger change.
C19_OnlyObjectInputInvoked ==
    \A f \in Fibers :
        /\ h[f].pc # "idle" => WellFormedObject(h[f].input)
        /\ (/\ Ended(f)
            /\ HasOperation(last[f].service, last[f].operation)
            /\ ~WellFormedObject(last[f].input)) =>
               /\ last[f].kind = "returned"
               /\ last[f].text = "Error: Invalid JSON input"
               /\ last[f].requests = 0
               /\ last[f].error = NoError
        /\ (/\ Ended(f)
            /\ HasOperation(last[f].service, last[f].operation)
            /\ trim(last[f].input) \in { "", "{}" }) =>
               last[f].requests > 0

\* C20: the outcome text of a failed probe carries NEW ERROR DISCOVERED
\* exactly when the error's tag is not in the known-error list that
\* DescribeOperation reports for the operation, and reports it as known
\* otherwise.
C20_NewFlagAgreesWithDescribe ==
    \A f \in Fibers :
        Settled(f) =>
            LET described == DescribeOperation(last[f].service, last[f].operation)
            IN  /\ described.found
                /\ (last[f].text = "NEW ERROR DISCOVERED") <=>
                       (last[f].error.tag \notin described.knownErrors)
                /\ (last[f].text = "known") <=>
                       (last[f].error.tag \in described.knownErrors)

C20_Witness ==
    /\ Settled("f1")
    /\ Len(discoveredErrors) = 2
    /\ discoveredErrors[1].operation = "getValue"
    /\ discoveredErrors[1].tag = "ValidationError"
    /\ discoveredErrors[2].operation = "putValue"
    /\ discoveredErrors[2].tag = "ValidationError"
    /\ last["f1"].operation = "putValue"
    /\ last["f1"].text = "known"

\* C21: the loop runs at most MAX_ITERATIONS rounds whatever the planner
\* answers; at the cap the loop is left for the save step, and the save step
\* exports the ledger as it is at that moment.
C21_LoopCappedThenExport ==
    [][ /\ iteration' <= MAX_ITERATIONS
        /\ (loopPc = "while" /\ iteration >= MAX_ITERATIONS) => loopPc' = "save"
        /\ (loopPc = "save" /\ loopPc' = "done") =>
               /\ discoveredErrors' = discoveredErrors
               /\ \E now \in Times :
                      saved' = Append(saved, saveResults(discoveredErrors, now)) ]_vars

C21_Witness ==
    /\ loopPc = "done"
    /\ iteration = MAX_ITERATIONS
    /\ finishReason = "tool-calls"
    /\ Len(discoveredErrors) = 2
    /\ Len(saved) = 1
    /\ saved[1].written
    /\ Len(saved[1].catalogs[1].catalog.operations[1].errors) = 2

\* C22: a bad probe never ends the session: every failure path of a probe
\* (unknown operation, malformed input, provider error, transport error)
\* yields an outcome after which the stream step goes on, so that further
\* probes run and the save step is reached; no probe makes the stream step
\* fail or the command die.
C22_BadProbeKeepsSession ==
    /\ loopPc \notin { "failing", "dying", "died" }
    /\ \A i \in 1..Len(streamErrors) : streamErrors[i] # "tool"

\* C29: the stream step is retried only when it fails with a rate-limit
\* error, at most 3 times per iteration, with delays growing exponentially
\* from 30 seconds; a failure that is no rate-limit error ends the loop
\* without a retry.
C29_OnlyRateLimitRetried ==
    /\ Len(delays) <= 3
    /\ Len(delays) = retries
    /\ \A i \in 1..Len(delays) :
           /\ delays[i] = 30000 * Pow2(i - 1)
           /\ streamErrors[i] = "rate_limit"
    /\ (loopPc = "after" /\ finishReason = "error" /\
            streamErrors[Len(streamErrors)] # "rate_limit") => retries = 0

\* C23: a call of RenameError, whether it succeeds or fails with operation
\* not found, leaves the sequence of ledger records as it was.
C23_RenameLeavesLedger ==
    [][ (\E name \in RenameNames :
             RenameError("f1", name[1], name[2], "NotFoundError", "KeyNotFoundError"))
        => discoveredErrors' = discoveredErrors ]_vars

C23_Witness ==
    /\ Len(discoveredErrors) = 1
    /\ discoveredErrors[1].operation = "getValue"
    /\ discoveredErrors[1].tag = "NotFoundError"
    /\ last["f1"].kind = "returned"
    /\ last["f1"].tool = "RenameError"
    /\ last["f1"].text = "RENAME"
    /\ last["f1"].operation = "getValue"

\* An export without its readings of the clock.
Masked(x) ==
    [ written |-> x.written,
      catalogs |-> [ i \in 1..Len(x.catalogs) |->
                       [ key |-> x.catalogs[i].key,
                         catalog |-> [ x.catalogs[i].catalog EXCEPT !.generatedAt = 0 ] ] ],
      types |-> IF x.written THEN [ x.types EXCEPT !.generated = 0 ] ELSE x.types ]

\* C24, as stated: exporting leaves the ledger unchanged and yields type
\* definitions and catalogs identical to those of every earlier export of
\* the same ledger.
C24_ExportDeterministic ==
    [][ saved' # saved =>
          /\ discoveredErrors' = discoveredErrors
          /\ \A i \in 1..Len(saved) :
                 /\ saved[i].catalogs = saved'[Len(saved')].catalogs
                 /\ saved[i].types = saved'[Len(saved')].types ]_vars

\* C24, amended: exporting leaves the ledger unchanged and yields type
\* definitions and catalogs that differ from those of an earlier export of
\* the same ledger in their generation timestamps only.
C24_ExportDeterministicButTime ==
    [][ saved' # saved =>
          /\ discoveredErrors' = discoveredErrors
          /\ \A i \in 1..Len(saved) :
                 Masked(saved[i]) = Masked(saved'[Len(saved')]) ]_vars

C24_Witness ==
    /\ Len(saved) = 2
    /\ Len(discoveredErrors) = 3
    /\ saved[1].written
    /\ saved[1].types.generated # saved[2].types.generated
    /\ Masked(saved[1]) = Masked(saved[2])
    /\ loopPc = "done"

\* The operations of a service and the (tag, code) pairs of an operation in
\* the ledger, each once, in the order first recorded.
OperationsRecorded(sv) ==
    LET mine == SelectSeq(discoveredErrors, LAMBDA e : e.service = sv)
    IN  dedupe([ i \in 1..Len(mine) |-> mine[i].operation ])

TuplesRecorded(sv, o) ==
    LET mine == SelectSeq(discoveredErrors, LAMBDA e : e.service = sv /\ e.operation = o)
    IN  dedupe([ i \in 1..Len(mine) |-> << mine[i].tag, mine[i].code >> ])

ServicesRecorded == dedupe([ i \in 1..Len(discoveredErrors) |-> discoveredErrors[i].service ])

\* C25: the exported entries are grouped by service and then by operation,
\* and within an operation the typed-union variants and the catalog entries
\* appear once per distinct observed tuple, in first-observed order.
C25_EntriesOncePerTupleInOrder ==
    \A k \in 1..Len(saved) :
        saved[k].written =>
            /\ Len(saved[k].types.services) = Len(ServicesRecorded)
            /\ Len(saved[k].catalogs) = Len(ServicesRecorded)
            /\ \A i \in 1..Len(ServicesRecorded) :
                   LET sv == ServicesRecorded[i]
                       ops == OperationsRecorded(sv)
                       types == saved[k].types.services[i].types
                       catalog == saved[k].catalogs[i].catalog
                   IN  /\ saved[k].types.services[i].service = sv
                       /\ catalog.service = sv
                       /\ Len(types) = Len(ops)
                       /\ Len(catalog.operations) = Len(ops)
                       /\ \A j \in 1..Len(ops) :
                              /\ types[j].name = toTypeName(sv, ops[j])
                              /\ types[j].variants = TuplesRecorded(sv, ops[j])
                              /\ catalog.operations[j].operation = ops[j]
                              /\ [ n \in 1..Len(catalog.operations[j].errors) |->
                                     << catalog.operations[j].errors[n].tag,
                                        catalog.operations[j].errors[n].code >> ]
                                 = TuplesRecorded(sv, ops[j])

\* The same of the type definitions alone.
TypesOncePerTupleInOrder ==
    \A k \in 1..Len(saved) :
        saved[k].written =>
            /\ Len(saved[k].types.services) = Len(ServicesRecorded)
            /\ \A i \in 1..Len(ServicesRecorded) :
                   LET sv == ServicesRecorded[i]
                       ops == OperationsRecorded(sv)
                       types == saved[k].types.services[i].types
                   IN  /\ saved[k].types.services[i].service = sv
                       /\ Len(types) = Len(ops)
                       /\ \A j \in 1..Len(ops) :
                              /\ types[j].name = toTypeName(sv, ops[j])
                              /\ types[j].variants = TuplesRecorded(sv, ops[j])

\* C30: in a finished catalog summary.totalUniqueErrors equals the number
\* of error entries listed under the catalog's operations.
C30_TotalCountsEntries ==
    catPc = "done" => summary.totalUniqueErrors = Cardinality(CatalogEntries)

\* The ledger of two probes of KV.getValue that the provider answered with
\* code 10013 and HTTP 404.
NotFoundTwice ==
    /\ probes = 2
    /\ Len(discoveredErrors) = 2
    /\ \A i \in 1..2 :
           /\ discoveredErrors[i].service = "KV"
           /\ discoveredErrors[i].operation = "getValue"
           /\ discoveredErrors[i].tag = "NotFoundError"
           /\ discoveredErrors[i].code = 10013
    /\ last["f1"].input = probedInput
    /\ last["f1"].response.status = 404

\* C26: two probes of KV.getValue with the same input, answered with code
\* 10013 and HTTP 404, give a catalog with a single NotFound entry of code
\* 10013 that is documented, has occurrences 2 and holds the input once in
\* its trigger examples.
C26_TwoProbesOneEntry ==
    (catPc = "done" /\ NotFoundTwice) =>
        /\ DOMAIN operations = { "getValue" }
        /\ DOMAIN operations["getValue"].errors = { "NotFoundError" }
        /\ LET entry == operations["getValue"].errors["NotFoundError"]
           IN  /\ entry.code = 10013
               /\ entry.occurrences = 2
               /\ entry.isDocumented = "true"
               /\ Len(entry.triggerExamples) = 1

\* The part of C26 that is about the number of entries and their counts.
TwoProbesOneEntryCounted ==
    (catPc = "done" /\ NotFoundTwice) =>
        /\ DOMAIN operations = { "getValue" }
        /\ DOMAIN operations["getValue"].errors = { "NotFoundError" }
        /\ operations["getValue"].errors["NotFoundError"].code = 10013
        /\ operations["getValue"].errors["NotFoundError"].occurrences = 2

EndToEndDone == catPc = "done" /\ NotFoundTwice

IsPrefix(a, b) == Len(a) <= Len(b) /\ SubSeq(b, 1, Len(a)) = a

\* The number of records of the ledger that are observations of the tuple
\* of record e.
OccurrencesIn(ledger, e) ==
    Cardinality({ i \in 1..Len(ledger) :
                      /\ ledger[i].service = e.service
                      /\ ledger[i].operation = e.operation
                      /\ ledger[i].tag = e.tag
                      /\ ledger[i].code = e.code })

\* C27: the ledger is empty at session start and in every step the previous
\* ledger is a prefix of the new one, so that no record is deleted, replaced
\* or reordered and no tuple's number of occurrences decreases.
C27_LedgerAppendOnly ==
    /\ discoveredErrors = <<>>
    /\ [][ /\ IsPrefix(discoveredErrors, discoveredErrors')
           /\ \A i \in 1..Len(discoveredErrors) :
                  OccurrencesIn(discoveredErrors', discoveredErrors[i])
                      >= OccurrencesIn(discoveredErrors, discoveredErrors[i]) ]_vars

C27_Witness ==
    /\ Len(discoveredErrors) = 2
    /\ OccurrencesIn(discoveredErrors, discoveredErrors[1]) = 2
    /\ discoveredErrors[1].tag = "NotFoundError"
    /\ h["f1"].pc = "idle"
    /\ last["f1"].text = "known"

\* The handler of fiber f runs to its end in this step.
Settles(f) == h[f].pc # "idle" /\ h'[f].pc = "idle"

\* What the transport call of fiber f gives when it settles from the state
\* the fiber is suspended in.
OwnResult(f) ==
    IF h[f].pc = "json" THEN makeRequestResult(h[f].response)
    ELSE [ ok |-> FALSE, error |-> NetworkError ]

OwnRecord(f) ==
    [ service |-> h[f].service, operation |-> h[f].operation,
      tag |-> OwnResult(f).error.tag,
      code |-> IF OwnResult(f).error.hasCode THEN OwnResult(f).error.code ELSE 0,
      message |-> OwnResult(f).error.message ]

\* C28: with two CallApi probes in flight at once, each failing probe
\* appends exactly one ledger record carrying its own service, operation,
\* tag and code; no other step changes the ledger, so no record is lost,
\* duplicated or built from the other probe's data.
C28_EachProbeOwnRecord ==
    [][ /\ \A f \in Fibers :
               (Settles(f) /\ ~OwnResult(f).ok) =>
                   discoveredErrors' = Append(discoveredErrors, OwnRecord(f))
        /\ (~\E f \in Fibers : Settles(f) /\ ~OwnResult(f).ok) =>
               discoveredErrors' = discoveredErrors
        /\ Len(discoveredErrors') = invocationsFailed' ]_vars

C28_Witness ==
    /\ probes = 2
    /\ h["f1"].pc = "idle" /\ h["f2"].pc = "idle"
    /\ last["f1"].service = "KV" /\ last["f1"].error.tag = "NotFoundError"
    /\ last["f2"].service = "D1" /\ last["f2"].error.tag = "RateLimitError"
    /\ Len(discoveredErrors) = 2
    /\ discoveredErrors[1].service = "D1" /\ discoveredErrors[1].tag = "RateLimitError"
    /\ discoveredErrors[2].service = "KV" /\ discoveredErrors[2].tag = "NotFoundError"

====
